---- MODULE Spec2Model ----
(***************************************************************************)
(* A model of the request router (src/src/router.ts) and of the Cloudflare *)
(* AI provider adapter (src/src/providers/cloudflare-ai.ts).               *)
(*                                                                         *)
(* Strings are sequences of characters, so that startsWith, string         *)
(* concatenation and "contains" are computed and not assumed.  A literal   *)
(* of the source that is never taken apart is one element of a sequence.   *)
(***************************************************************************)
EXTENDS Integers, Sequences, FiniteSets, TLC

VARIABLES
    routes,      \* Router.routes: the parsed route table, in insertion order
    path,        \* the path argument of executeWithFallback
    pc,          \* position of the executeWithFallback call
    providers,   \* local 'providers' of executeWithFallback
    idx,         \* loop variable i of executeWithFallback, 1-based
    lastError,   \* local 'lastError' of executeWithFallback
    result,      \* what executeWithFallback returned or raised
    calls,       \* history: one entry per provider attempt, in time order
    aiBinding,   \* CloudflareAIProvider.aiBinding: TRUE when the binding is there
    request,     \* the request argument of chat
    chatPc,      \* position of the chat call
    chatResult,  \* how the promise returned by chat settled
    fault,       \* history: the fault the upstream side raised, or "none"
    cfStream,    \* what aiBinding.run resolved with for a streaming request
    readPos,     \* number of upstream chunks read so far
    isFirst,     \* local 'isFirst' of the forwarding task
    taskPc,      \* position of the background forwarding task of handleStream
    pending,     \* the frame the forwarding task is writing
    emitted,     \* the frames written to the stream so far, in order
    consumer,    \* the reader of the returned stream: "reading" or "cancelled"
    clock,       \* Date.now()
    messages,    \* request.messages
    cfMessages,  \* params.messages: what convertMessages returned
    cfResponse,  \* what aiBinding.run resolved with for a non-streaming request
    routesConfig, \* env.ROUTES_CONFIG
    router,      \* how the constructor of Router ended
    served,      \* how a request on the constructed Router ended
    pair         \* two requests under way at once: the locals of each

rvars == <<routes, path, pc, providers, idx, lastError, result, calls>>

avars == <<aiBinding, request, chatPc, chatResult, fault, cfStream, readPos,
           isFirst, taskPc, pending, emitted, consumer, clock, messages,
           cfMessages, cfResponse>>

cvars == <<routesConfig, router, served>>

vars == <<rvars, avars, cvars, pair>>

\* what the steps of executeWithFallback leave alone
outsideRouter == <<avars, cvars, pair>>

\* what the steps of chat and of its stream leave alone
outsideAdapter == <<rvars, cvars, pair>>

-----------------------------------------------------------------------------
(* Bounds of the model *)

\* the largest number of routes in a route table
MaxRoutes == 2

\* the largest number of provider configurations in one route
MaxProviders == 3

\* the largest number of chunks an upstream stream yields
MaxChunks == 2

\* the largest reading of the clock
MaxClock == 1

\* the largest number of messages in a request
MaxMessages == 2

-----------------------------------------------------------------------------
(* Strings *)

Range(s) == {s[k] : k \in 1..Len(s)}

\* String.prototype.startsWith
StartsWith(s, prefix) ==
    /\ Len(prefix) <= Len(s)
    /\ SubSeq(s, 1, Len(prefix)) = prefix

\* part occurs in s
Includes(s, part) ==
    \E k \in 0..(Len(s) - Len(part)) : SubSeq(s, k + 1, k + Len(part)) = part

Digits == {"0", "1", "2", "3", "4", "5", "6", "7", "8", "9"}

DigitValue(c) ==
    CASE c = "0" -> 0 [] c = "1" -> 1 [] c = "2" -> 2 [] c = "3" -> 3
      [] c = "4" -> 4 [] c = "5" -> 5 [] c = "6" -> 6 [] c = "7" -> 7
      [] c = "8" -> 8 [] c = "9" -> 9

\* A property key that is a canonical array index ("0", "1", "42", not "01"):
\* such keys are enumerated first, in ascending numeric order.
IsArrayIndex(k) ==
    /\ Len(k) > 0
    /\ Range(k) \subseteq Digits
    /\ (Len(k) = 1 \/ k[1] # "0")

RECURSIVE IndexValue(_)
IndexValue(k) ==
    IF k = <<>> THEN 0
    ELSE 10 * IndexValue(SubSeq(k, 1, Len(k) - 1)) + DigitValue(k[Len(k)])

-----------------------------------------------------------------------------
(* The inputs *)

\* route keys a configuration may hold
RouteKeys ==
    { <<"/", "a">>, <<"/", "a", "b">>, <<"1">>, <<"2">> }

\* request paths
Paths ==
    { <<"a">>, <<"/", "a", "b">>, <<"/", "a", "b", "b">>, <<"1">> }

\* error texts of a failing provider attempt
ErrorTexts == { <<>>, <<"x">> }

\* JSON.parse builds every provider configuration as an object of its own:
\* a configuration is identified by its route and its position in the list.
ProviderList(key, n) == [j \in 1..n |-> [route |-> key, pos |-> j]]

SeqsUpTo(S, n) == UNION {[1..m -> S] : m \in 0..n}

\* the route tables: distinct keys, each with a list of 0..MaxProviders
\* provider configurations
RouteTables ==
    { [k \in 1..Len(ks) |-> [route |-> ks[k], providers |-> ProviderList(ks[k], ns[k])]] :
        <<ks, ns>> \in
            { kn \in SeqsUpTo(RouteKeys, MaxRoutes) \X SeqsUpTo(0..MaxProviders, MaxRoutes) :
                /\ Len(kn[1]) = Len(kn[2])
                /\ \A a, b \in 1..Len(kn[1]) : a # b => kn[1][a] # kn[1][b] } }

-----------------------------------------------------------------------------
(* The route table as a JavaScript object *)

\* routes[key]: the value stored under key, or undefined
HasKey(rt, key) == \E k \in 1..Len(rt) : rt[k].route = key

Lookup(rt, key) == rt[CHOOSE k \in 1..Len(rt) : rt[k].route = key].providers

\* the array-index keys in ascending numeric order
RECURSIVE Ascending(_)
Ascending(S) ==
    IF S = {} THEN <<>>
    ELSE LET least == CHOOSE r \in S : \A q \in S : IndexValue(r.route) <= IndexValue(q.route)
         IN  <<least>> \o Ascending(S \ {least})

RECURSIVE Others(_)
Others(rt) ==
    IF rt = <<>> THEN <<>>
    ELSE (IF IsArrayIndex(Head(rt).route) THEN <<>> ELSE <<Head(rt)>>) \o Others(Tail(rt))

\* Object.entries(this.routes) / Object.values(this.routes): own properties
\* in property order, array-index keys ascending first, then the other
\* string keys in insertion order
ObjectEntries(rt) ==
    Ascending({rt[k] : k \in {n \in 1..Len(rt) : IsArrayIndex(rt[n].route)}}) \o Others(rt)

-----------------------------------------------------------------------------
(* Router.getProvidersForRoute *)

\* const normalizedPath = path.startsWith('/') ? path : `/${path}`
NormalizePath(p) == IF StartsWith(p, <<"/">>) THEN p ELSE <<"/">> \o p

\* if (this.routes[normalizedPath]): a list, even an empty one, is truthy
ExactMatch(rt, np) == HasKey(rt, np)

\* the for loop over Object.entries(this.routes): the entries whose key the
\* normalized path starts with, in the order of the loop
PrefixMatches(rt, np) == SelectSeq(ObjectEntries(rt), LAMBDA e : StartsWith(np, e.route))

\* the loop returns at the first entry that matches
PickPrefixLast(matches) == matches[Len(matches)]

PickPrefix(matches) == matches[1]

\* const defaultRoute = Object.values(this.routes)[0]
DefaultRouteLast(rt) == ObjectEntries(rt)[Len(rt)].providers

DefaultRoute(rt) == ObjectEntries(rt)[1].providers

\* if (defaultRoute): undefined for an empty table, a list otherwise
HasDefaultRoute(rt) == ObjectEntries(rt) # <<>>

ProxyError(message, status) == [kind |-> "ProxyError", text |-> message, statusCode |-> status]

Str_NoProviders == <<"No providers configured for route: ">>

\* the whole method: [ok |-> TRUE, value |-> list] for a return,
\* [ok |-> FALSE, error |-> e] for a throw
GetProvidersPrefixFirst(rt, p) ==
    LET np == NormalizePath(p) IN
    IF PrefixMatches(rt, np) # <<>> THEN [ok |-> TRUE, value |-> PickPrefix(PrefixMatches(rt, np)).providers]
    ELSE IF ExactMatch(rt, np) THEN [ok |-> TRUE, value |-> Lookup(rt, np)]
    ELSE IF HasDefaultRoute(rt) THEN [ok |-> TRUE, value |-> DefaultRoute(rt)]
    ELSE [ok |-> FALSE, error |-> ProxyError(Str_NoProviders \o p, 404)]

getProvidersForRoute(rt, p) ==
    LET np == NormalizePath(p) IN
    IF ExactMatch(rt, np) THEN [ok |-> TRUE, value |-> Lookup(rt, np)]
    ELSE IF PrefixMatches(rt, np) # <<>> THEN [ok |-> TRUE, value |-> PickPrefix(PrefixMatches(rt, np)).providers]
    ELSE IF HasDefaultRoute(rt) THEN [ok |-> TRUE, value |-> DefaultRoute(rt)]
    ELSE [ok |-> FALSE, error |-> ProxyError(Str_NoProviders \o p, 404)]

-----------------------------------------------------------------------------
(* Router.constructor and parseRoutesConfig *)

\* the values JSON.parse may build: null, a number, an array, or an object
\* whose entries are [route, providers] with any value under 'providers'
JNull == [type |-> "null", items |-> <<>>]
JNumber == [type |-> "number", items |-> <<>>]
JArray(items) == [type |-> "array", items |-> items]
JObject(entries) == [type |-> "object", items |-> entries]

\* env.ROUTES_CONFIG: undefined, '', a text that is no JSON, or a JSON text
EnvValue(kind, json) == [kind |-> kind, json |-> json]

\* the JSON object of a route table
ConfigOf(rt) ==
    JObject([k \in 1..Len(rt) |-> [route |-> rt[k].route, providers |-> JArray(rt[k].providers)]])

\* the configurations that map route paths to lists of provider configurations
WellFormedConfigs == {EnvValue("json", ConfigOf(rt)) : rt \in RouteTables}

\* absent, not JSON, or JSON of another shape
MalformedConfigs ==
    {EnvValue("undefined", JNull), EnvValue("empty", JNull), EnvValue("garbage", JNull)}
    \cup {EnvValue("json", v) : v \in {JNull, JNumber, JArray(<<>>)}}
    \cup {EnvValue("json", JObject(<<[route |-> <<"/", "a">>, providers |-> v]>>)) :
            v \in {JNull, JNumber, JArray(<<JNull>>)}}

Str_InvalidConfig == <<"Invalid ROUTES_CONFIG">>

\* lines 90-102: a missing or empty text, a text JSON.parse rejects, and a
\* value Object.keys throws on (null) end in ProxyError('Invalid ROUTES_CONFIG');
\* every other parsed value is returned as it is
parseRoutesConfig(env) ==
    IF env.kind \in {"undefined", "empty", "garbage"} \/ env.json.type = "null"
    THEN [ok |-> FALSE, error |-> ProxyError(Str_InvalidConfig, 500)]
    ELSE [ok |-> TRUE, value |-> env.json]

\* the Router object: whether the constructor returned, and this.routes
RouterObject(state, value) == [state |-> state, routes |-> value]

\* truthiness of a parsed value: null is falsy, a number such as 5 and any
\* array or object are truthy
JTruthy(v) == v.type # "null"

\* Object.entries of a parsed value: a number and an empty array have no
\* own enumerable properties
EntriesOf(v) == IF v.type = "object" THEN ObjectEntries(v.items) ELSE <<>>

\* getProvidersForRoute on whatever this.routes holds
ResolveIn(v, p) ==
    LET np == NormalizePath(p)
        entries == EntriesOf(v)
        exact == SelectSeq(entries, LAMBDA e : e.route = np /\ JTruthy(e.providers))
        prefix == SelectSeq(entries, LAMBDA e : StartsWith(np, e.route))
    IN  IF exact # <<>> THEN [ok |-> TRUE, value |-> exact[1].providers]
        ELSE IF prefix # <<>> THEN [ok |-> TRUE, value |-> prefix[1].providers]
        ELSE IF entries # <<>> /\ JTruthy(entries[1].providers)
        THEN [ok |-> TRUE, value |-> entries[1].providers]
        ELSE [ok |-> FALSE, error |-> ProxyError(Str_NoProviders \o p, 404)]

\* an element of a provider list that is null
IsNullItem(x) == "type" \in DOMAIN x /\ x.type = "null"

\* lines 49-60 of executeWithFallback, up to the first attempt: how the call
\* goes on for the value getProvidersForRoute returned.  providers.length
\* throws on null and is undefined on a number, which ends the loop at once;
\* config.provider in the log statement throws on a null element
EnterFallback(v, p) ==
    LET r == ResolveIn(v, p) IN
    IF ~r.ok THEN [kind |-> "rejected", statusCode |-> 404]
    ELSE IF r.value.type = "null" THEN [kind |-> "rejected", statusCode |-> 0]
    ELSE IF r.value.type = "number" \/ r.value.items = <<>>
    THEN [kind |-> "failure", statusCode |-> 500]
    ELSE IF IsNullItem(r.value.items[1]) THEN [kind |-> "rejected", statusCode |-> 0]
    ELSE [kind |-> "attempt", statusCode |-> 0]

NotServed == [kind |-> "none", statusCode |-> 0]

-----------------------------------------------------------------------------
(* JavaScript values held by lastError *)

Null == [kind |-> "null", text |-> <<>>]
Undefined == [kind |-> "undefined", text |-> <<>>]
StringValue(t) == [kind |-> "string", text |-> t]
ErrorObject(t) == [kind |-> "Error", text |-> t]

\* truthiness, as || sees it
Truthy(v) ==
    CASE v.kind = "Error" -> TRUE
      [] v.kind = "string" -> v.text # <<>>
      [] OTHER -> FALSE

\* v?.message: only an Error object has one
MessageOf(v) == IF v.kind = "Error" THEN StringValue(v.text) ELSE Undefined

\* `${v}`: Error.prototype.toString gives the name alone for an empty message
TemplateString(v) ==
    CASE v.kind = "Error" -> (IF v.text = <<>> THEN <<"Error">> ELSE <<"Error: ">> \o v.text)
      [] v.kind = "string" -> v.text
      [] v.kind = "null" -> <<"null">>
      [] OTHER -> <<"undefined">>

Str_AllFailed == <<"All providers failed. Last error: ">>
Str_Unknown == <<"Unknown error">>

-----------------------------------------------------------------------------
(* ProviderResponse values *)

NoPayload == [route |-> <<>>, pos |-> 0]

\* a success carries the response built for one provider configuration
SuccessResponse(config) ==
    [success |-> TRUE, payload |-> config, error |-> Undefined, statusCode |-> 0]

FailureResponse(err, status) ==
    [success |-> FALSE, payload |-> NoPayload, error |-> err, statusCode |-> status]

\* what TokenManager.executeWithRotation may resolve with for a configuration
RotationResponses(config) ==
    {SuccessResponse(config)} \cup {FailureResponse(StringValue(t), 429) : t \in ErrorTexts}

\* what new TokenManager(...) may throw
ConstructorFaults == {ErrorObject(<<>>)}

\* what TokenManager.executeWithRotation may reject with
RotationFaults == {ErrorObject(<<"y">>)}

-----------------------------------------------------------------------------
(* Router.executeWithFallback *)

\* if (response.success)
IsSuccessNever(response) == FALSE

IsSuccess(response) == response.success

\* i++ of the for loop
NextIndexRetry(i) == i

NextIndex(i) == i + 1

\* lastError = response.error / lastError = error
RecordErrorKeepFirst(old, new) == IF old = Null THEN new ELSE old

RecordError(old, new) == new

\* the value returned after the loop
AllFailedResponse(le) ==
    FailureResponse(
        StringValue(Str_AllFailed \o
            (IF Truthy(MessageOf(le)) THEN MessageOf(le).text
             ELSE IF Truthy(le) THEN TemplateString(le)
             ELSE Str_Unknown)),
        500)

Call(config, state, err) == [config |-> config, state |-> state, error |-> err]

SetLast(log, entry) == [log EXCEPT ![Len(log)] = entry]

\* no chat call is under way
AdapterIdle ==
    /\ aiBinding = TRUE
    /\ request = [stream |-> FALSE, tools |-> "absent"]
    /\ chatPc = "idle"
    /\ chatResult = [state |-> "pending"]
    /\ fault = "none"
    /\ cfStream = Null
    /\ readPos = 0
    /\ isFirst = TRUE
    /\ taskPc = "none"
    /\ pending = Null
    /\ emitted = <<>>
    /\ consumer = "reading"
    /\ clock = 0
    /\ messages = <<>>
    /\ cfMessages = <<>>
    /\ cfResponse = Null

\* no Router is under construction
ConfigIdle ==
    /\ routesConfig = EnvValue("undefined", JNull)
    /\ router = RouterObject("none", JNull)
    /\ served = NotServed
    /\ pair = <<>>

\* a Router built from a route table, and one call of executeWithFallback
Init ==
    /\ routes \in RouteTables
    /\ path \in Paths
    /\ pc = "call"
    /\ providers = <<>>
    /\ idx = 1
    /\ lastError = Null
    /\ result = Null
    /\ calls = <<>>
    /\ AdapterIdle
    /\ routesConfig = EnvValue("json", ConfigOf(routes))
    /\ router = RouterObject("constructed", ConfigOf(routes))
    /\ served = NotServed
    /\ pair = <<>>

\* const providers = this.getProvidersForRoute(path): a throw leaves the
\* async function at once, its promise rejected
Resolve ==
    /\ pc = "call"
    /\ LET r == getProvidersForRoute(routes, path) IN
        IF r.ok
        THEN /\ providers' = r.value
             /\ pc' = "loop"
             /\ UNCHANGED result
        ELSE /\ result' = r.error
             /\ pc' = "rejected"
             /\ UNCHANGED providers
    /\ idx' = 1
    /\ lastError' = Null
    /\ UNCHANGED <<routes, path, calls>>
    /\ UNCHANGED outsideRouter

\* new TokenManager(config, this.env) throws: the catch block
ConstructorThrows ==
    /\ pc = "loop"
    /\ idx <= Len(providers)
    /\ \E e \in ConstructorFaults :
        /\ calls' = Append(calls, Call(providers[idx], "fault", e))
        /\ lastError' = RecordError(lastError, e)
    /\ idx' = NextIndex(idx)
    /\ UNCHANGED <<routes, path, pc, providers, result>>
    /\ UNCHANGED outsideRouter

\* manager.executeWithRotation(request) is called and awaited
StartRotationNoAwait ==
    /\ pc = "loop"
    /\ idx <= Len(providers)
    /\ calls' = Append(calls, Call(providers[idx], "pending", Undefined))
    /\ idx' = NextIndex(idx)
    /\ UNCHANGED <<routes, path, pc, providers, lastError, result>>
    /\ UNCHANGED outsideRouter

StartRotation ==
    /\ pc = "loop"
    /\ idx <= Len(providers)
    /\ calls' = Append(calls, Call(providers[idx], "pending", Undefined))
    /\ pc' = "await"
    /\ UNCHANGED <<routes, path, providers, idx, lastError, result>>
    /\ UNCHANGED outsideRouter

\* the awaited promise resolves with a response
RotationReturns ==
    /\ pc = "await"
    /\ \E response \in RotationResponses(providers[idx]) :
        IF IsSuccess(response)
        THEN /\ calls' = SetLast(calls, Call(providers[idx], "success", Undefined))
             /\ result' = response
             /\ pc' = "done"
             /\ UNCHANGED <<idx, lastError>>
        ELSE /\ calls' = SetLast(calls, Call(providers[idx],
                    IF response.success THEN "success" ELSE "failure", response.error))
             /\ lastError' = RecordError(lastError, response.error)
             /\ idx' = NextIndex(idx)
             /\ pc' = "loop"
             /\ UNCHANGED result
    /\ UNCHANGED <<routes, path, providers>>
    /\ UNCHANGED outsideRouter

\* the awaited promise rejects: the catch block
RotationRejectsEscapes ==
    /\ pc = "await"
    /\ \E e \in RotationFaults :
        /\ calls' = SetLast(calls, Call(providers[idx], "fault", e))
        /\ result' = e
    /\ pc' = "rejected"
    /\ UNCHANGED <<routes, path, providers, idx, lastError>>
    /\ UNCHANGED outsideRouter

RotationRejects ==
    /\ pc = "await"
    /\ \E e \in RotationFaults :
        /\ calls' = SetLast(calls, Call(providers[idx], "fault", e))
        /\ lastError' = RecordError(lastError, e)
    /\ idx' = NextIndex(idx)
    /\ pc' = "loop"
    /\ UNCHANGED <<routes, path, providers, result>>
    /\ UNCHANGED outsideRouter

\* the loop ends with no success: the aggregate failure
AllFailed ==
    /\ pc = "loop"
    /\ idx > Len(providers)
    /\ result' = AllFailedResponse(lastError)
    /\ pc' = "done"
    /\ UNCHANGED <<routes, path, providers, idx, lastError, calls>>
    /\ UNCHANGED outsideRouter

Next ==
    \/ Resolve
    \/ ConstructorThrows
    \/ StartRotation
    \/ RotationReturns
    \/ RotationRejects
    \/ AllFailed

Spec == Init /\ [][Next]_vars

-----------------------------------------------------------------------------
(* Claims about Router.executeWithFallback *)

Failed(call) == call.state \in {"failure", "fault"}

\* how often the provider configuration c was attempted
InvocationCount(c) == Cardinality({k \in 1..Len(calls) : calls[k].config = c})

\* C1: when the first M providers of the resolved list fail and provider M+1
\* succeeds, the call has returned exactly the response produced for provider
\* M+1, and no provider after position M+1 is ever invoked.
C1_FirstSuccessShortCircuits ==
    \A n \in 1..Len(calls) :
        calls[n].state = "success" =>
            /\ n = Len(calls)
            /\ n <= Len(providers)
            /\ \A k \in 1..(n - 1) : Failed(calls[k])
            /\ calls[n].config = providers[n]
            /\ pc = "done"
            /\ result = SuccessResponse(providers[n])
            /\ \A k \in (n + 1)..Len(providers) : InvocationCount(providers[k]) = 0

\* a success after one failure, with a later provider left untouched
C1_Witness ==
    /\ pc = "done"
    /\ Len(calls) = 2
    /\ calls[2].state = "success"
    /\ Len(providers) = 3

\* C2: when every provider of the resolved list fails, the call returns a
\* Failure with status 500 whose message contains the error text of the last
\* provider attempted, and no text of an earlier provider that the last one's
\* text does not itself contain.
C2_AllFailedEmbedsLastError ==
    (pc = "done" /\ \A k \in 1..Len(calls) : Failed(calls[k])) =>
        /\ ~result.success
        /\ result.statusCode = 500
        /\ result.error.kind = "string"
        /\ Len(calls) = Len(providers)
        /\ calls # <<>> =>
            LET last == calls[Len(calls)].error.text IN
            /\ Includes(result.error.text, last)
            /\ \A k \in 1..(Len(calls) - 1) :
                LET earlier == calls[k].error.text IN
                (earlier # <<>> /\ Includes(result.error.text, earlier))
                    => Includes(last, earlier)

\* all of three providers failed, the last two with different texts
C2_Witness ==
    /\ pc = "done"
    /\ Len(calls) = 3
    /\ \A k \in 1..3 : Failed(calls[k])
    /\ calls[2].error.text = <<"x">>
    /\ calls[3].error.text = <<"y">>
    /\ ~result.success

\* C3: within one call the providers are attempted in exactly the order of
\* the list: attempt k is of provider k, it is made only after attempts
\* 1..k-1 have failed, and no provider is attempted twice.
C3_AttemptsInListOrder ==
    /\ Len(calls) <= Len(providers)
    /\ \A k \in 1..Len(calls) :
        /\ calls[k].config = providers[k]
        /\ k < Len(calls) => Failed(calls[k])
        /\ InvocationCount(providers[k]) = 1

\* three providers attempted one after the other
C3_Witness ==
    /\ Len(calls) = 3
    /\ Failed(calls[1])
    /\ Failed(calls[2])

\* C4: a fault raised for a provider, by the constructor of its Credential
\* Rotator or by the rotation itself, never escapes executeWithFallback (the
\* call is only ever rejected by route resolution, before any attempt); the
\* attempt counts as failed and the loop stands at the next provider, so that
\* a call that ends in the aggregate failure has attempted every provider.
C4_FaultIsCaught ==
    /\ pc = "rejected" => calls = <<>>
    /\ \A k \in 1..Len(calls) :
        calls[k].state = "fault" =>
            /\ Failed(calls[k])
            /\ k = Len(calls) =>
                /\ pc \in {"loop", "done"}
                /\ idx = k + 1
                /\ lastError = calls[k].error
    /\ (pc = "done" /\ ~result.success) => Len(calls) = Len(providers)

\* a constructor fault and a rotation fault, each followed by the next attempt
C4_Witness ==
    /\ Len(calls) = 3
    /\ calls[1].state = "fault"
    /\ calls[1].error = ErrorObject(<<>>)
    /\ calls[2].state = "fault"
    /\ calls[2].error = ErrorObject(<<"y">>)
    /\ calls[3].state = "success"

-----------------------------------------------------------------------------
(* Claims about Router.getProvidersForRoute *)

\* the path with its leading '/' ensured
Slashed(p) == IF p # <<>> /\ p[1] = "/" THEN p ELSE <<"/">> \o p

Resolved == pc # "call"

ExactRoutes == {k \in 1..Len(routes) : routes[k].route = Slashed(path)}

PrefixRoutes == {k \in 1..Len(routes) : StartsWith(Slashed(path), routes[k].route)}

\* C6: on a path that matches a route exactly (the path, with its leading
\* '/' ensured, is the route's key) resolution returns the configured list of
\* that route, whatever other routes there are and in whatever order.
C6_ExactMatchReturnsList ==
    Resolved =>
        \A k \in ExactRoutes :
            /\ pc # "rejected"
            /\ providers = routes[k].providers

\* an exact match behind an earlier route whose key is a prefix of the path
C6_Witness ==
    /\ Resolved
    /\ \E k \in ExactRoutes : \E j \in PrefixRoutes : j < k
    /\ providers # <<>>

\* C7: on a path with no exact match and at least one route key that is a
\* prefix of the normalized path, resolution returns the list of the first
\* such route in insertion order.
C7_FirstPrefixInInsertionOrder ==
    (Resolved /\ ExactRoutes = {} /\ PrefixRoutes # {}) =>
        LET first == CHOOSE k \in PrefixRoutes : \A j \in PrefixRoutes : k <= j IN
        /\ pc # "rejected"
        /\ providers = routes[first].providers

\* two route keys are prefixes of the path, and none is the path
C7_Witness ==
    /\ Resolved
    /\ ExactRoutes = {}
    /\ Cardinality(PrefixRoutes) = 2
    /\ providers # <<>>

IndexRoutes == {k \in 1..Len(routes) : IsArrayIndex(routes[k].route)}

\* the 404 of an empty table is raised before any provider is attempted
C8_NotFound ==
    /\ (Resolved /\ routes = <<>>) =>
        /\ pc = "rejected"
        /\ result.kind = "ProxyError"
        /\ result.statusCode = 404
    /\ pc = "rejected" =>
        /\ routes = <<>>
        /\ calls = <<>>

\* C8 as stated: with neither an exact nor a prefix match, resolution returns
\* the first-inserted route's list if the table is non-empty and fails with
\* 404 if and only if it is empty, before any provider is attempted.
C8_DefaultIsFirstInserted ==
    /\ C8_NotFound
    /\ (Resolved /\ ExactRoutes = {} /\ PrefixRoutes = {} /\ routes # <<>>) =>
        providers = routes[1].providers

\* C8 as amended: the default is the route with the smallest array-index key
\* if a key is an array index, and the first-inserted route otherwise.
C8_DefaultIsFirstEnumerated ==
    /\ C8_NotFound
    /\ (Resolved /\ ExactRoutes = {} /\ PrefixRoutes = {} /\ routes # <<>>) =>
        LET least == CHOOSE k \in IndexRoutes :
                        \A j \in IndexRoutes :
                            IndexValue(routes[k].route) <= IndexValue(routes[j].route)
        IN  providers = routes[IF IndexRoutes # {} THEN least ELSE 1].providers

\* the default route is taken and it is not the first-inserted one
C8_Witness ==
    /\ pc = "loop"
    /\ ExactRoutes = {}
    /\ PrefixRoutes = {}
    /\ Len(routes) = 2
    /\ 1 \notin IndexRoutes
    /\ 2 \in IndexRoutes
    /\ providers # <<>>
    /\ routes[1].providers # <<>>

-----------------------------------------------------------------------------
(* The upstream side of the adapter: what aiBinding.run and the upstream   *)
(* stream may hand to the adapter                                          *)

Texts == { <<>>, <<"t">> }

\* an upstream tool call: { name, arguments }
UpstreamCall(name) == [name |-> name, arguments |-> "args"]

\* the values of the tool_calls field of an upstream object, when it is there
ToolCallBatches == { <<>>, <<UpstreamCall("f"), UpstreamCall("g")>> }

Value(kind, text, hasToolCalls, batch) ==
    [kind |-> kind, text |-> text, hasToolCalls |-> hasToolCalls, tool_calls |-> batch]

NullValue == Value("null", <<>>, FALSE, <<>>)

\* a string, an object { response, tool_calls? } or a byte array
UpstreamValues ==
    {Value("string", t, FALSE, <<>>) : t \in Texts}
    \cup {Value("object", t, FALSE, <<>>) : t \in Texts}
    \cup {Value("object", t, TRUE, b) : t \in Texts, b \in ToolCallBatches}
    \cup {Value("bytes", <<"t">>, FALSE, <<>>)}

\* what run resolves with for a non-streaming request
NonStreamValues == {NullValue} \cup {v \in UpstreamValues : v.kind # "bytes"}

Stream(kind, chunks, ending) == [kind |-> kind, chunks |-> chunks, ending |-> ending]

\* what run resolves with for a streaming request: null, or a ReadableStream
\* that yields its chunks and then is done or raises a read fault
UpstreamStreams ==
    {Stream("null", <<>>, "done")}
    \cup {Stream("stream", c, e) : c \in SeqsUpTo(UpstreamValues, MaxChunks), e \in {"done", "error"}}

\* the requests: the stream flag and the tools field (absent, [], or not empty)
Requests == [stream : BOOLEAN, tools : {"absent", "empty", "some"}]

-----------------------------------------------------------------------------
(* Pure parts of CloudflareAIProvider *)

\* if (request.tools && request.tools.length > 0) params.tools = ...
ParamsHasTools(req) == req.tools = "some"

\* the roles of the canonical schema
CanonicalRoles == {"system", "user", "assistant", "tool"}

\* a message: its role, its content (absent, '' or a text) and whether it
\* has a tool_calls field
Message(role, content, hasToolCalls) ==
    [role |-> role, content |-> content, hasToolCalls |-> hasToolCalls]

Messages ==
    {Message(r, c, h) :
        r \in CanonicalRoles,
        c \in {Undefined, StringValue(<<>>), StringValue(<<"t">>)},
        h \in BOOLEAN}

\* msg.content || ''
ContentOrEmpty(msg) == IF Truthy(msg.content) THEN msg.content.text ELSE <<>>

\* lines 153-176: the callback of messages.map
ConvertMessageKeepRole(msg) ==
    IF msg.role = "tool"
    THEN [role |-> "user", content |-> ContentOrEmpty(msg)]
    ELSE [role |-> msg.role, content |-> ContentOrEmpty(msg)]

ConvertMessage(msg) ==
    IF msg.role = "tool"
    THEN [role |-> "user", content |-> ContentOrEmpty(msg)]
    ELSE IF msg.role = "assistant" /\ msg.hasToolCalls
    THEN [role |-> "assistant", content |-> ContentOrEmpty(msg)]
    ELSE [role |-> IF msg.role = "system" THEN "user" ELSE msg.role,
          content |-> ContentOrEmpty(msg)]

\* convertMessages: messages.map(...)
convertMessages(msgs) == [k \in 1..Len(msgs) |-> ConvertMessage(msgs[k])]

\* convertToolCalls: id `call_${Date.now()}_${index}`, index from 0
convertToolCalls(batch, now) ==
    [k \in 1..Len(batch) |->
        [id |-> <<"call", now, k - 1>>,
         type |-> "function",
         name |-> batch[k].name,
         arguments |-> <<"JSON", batch[k].arguments>>]]

\* the delta of a stream chunk; <<>> stands for a field that is not set
Delta(role, content, toolCalls) == [role |-> role, content |-> content, tool_calls |-> toolCalls]

EmptyDelta == Delta("absent", <<>>, <<>>)

\* createStreamChunk(delta, model, finishReason): one 'data: <json>' frame
createStreamChunk(delta, finishReason) ==
    [type |-> "chunk", delta |-> delta, finish_reason |-> finishReason]

\* the frame 'data: [DONE]'
DoneFrame == [type |-> "done", delta |-> EmptyDelta, finish_reason |-> "none"]

\* lines 92-107: the text and the tool calls read off one upstream chunk;
\* decoding anything but bytes throws
ParseChunk(value) ==
    IF value.kind = "string"
    THEN [threw |-> FALSE, text |-> value.text, hasToolCalls |-> FALSE, toolCalls |-> <<>>]
    ELSE IF value.kind = "object" /\ value.text # <<>>
    THEN [threw |-> FALSE, text |-> value.text,
          hasToolCalls |-> value.hasToolCalls, toolCalls |-> value.tool_calls]
    ELSE IF value.kind = "bytes"
    THEN [threw |-> FALSE, text |-> value.text, hasToolCalls |-> FALSE, toolCalls |-> <<>>]
    ELSE [threw |-> TRUE, text |-> <<>>, hasToolCalls |-> FALSE, toolCalls |-> <<>>]

\* lines 110-131: the frame written for a parsed chunk, if one is written
RoleIfFirst(first) == IF first THEN "assistant" ELSE "absent"

ChunkFrames(parsed, first, now) ==
    IF parsed.hasToolCalls /\ Len(parsed.toolCalls) > 0
    THEN <<createStreamChunk(
            Delta(RoleIfFirst(first), <<>>, convertToolCalls(parsed.toolCalls, now)), "none")>>
    ELSE IF parsed.text # <<>>
    THEN <<createStreamChunk(Delta(RoleIfFirst(first), parsed.text, <<>>), "none")>>
    ELSE <<>>

\* lines 135-136: the final chunk
FinishChunkTruthy(req) ==
    createStreamChunk(EmptyDelta, IF req.tools # "absent" THEN "tool_calls" ELSE "stop")

FinishChunk(req) ==
    createStreamChunk(EmptyDelta, IF ParamsHasTools(req) THEN "tool_calls" ELSE "stop")

\* a promise that has settled
Fulfilled(v) == [state |-> "fulfilled", value |-> v]
Rejected(e) == [state |-> "rejected", value |-> e]

\* createOpenAIResponse(content, model)
createOpenAIResponse(content) ==
    [role |-> "assistant", content |-> StringValue(content), tool_calls |-> <<>>,
     finish_reason |-> "stop"]

AdapterSuccess(kind, body) == [success |-> TRUE, kind |-> kind, body |-> body]

AdapterFailure(message, status) ==
    [success |-> FALSE, kind |-> "failure", body |-> [error |-> message, statusCode |-> status]]

\* BaseProvider.handleError(error, name): a Failure built from the error
handleError(e) == AdapterFailure(e.text, 500)

\* response.tool_calls && response.tool_calls.length > 0
HasToolCalls(response) == response.hasToolCalls /\ Len(response.tool_calls) > 0

\* lines 60-62: the tool calls are set, the content is nulled
SetToolCallsKeepContent(plain, toolCalls) ==
    [plain EXCEPT !.tool_calls = toolCalls, !.finish_reason = "tool_calls"]

SetToolCalls(plain, toolCalls) ==
    [plain EXCEPT !.tool_calls = toolCalls,
                  !.content = Null,
                  !.finish_reason = "tool_calls"]

\* handleNonStream after run has resolved with 'response': the promise it returns
handleNonStream(response, now) ==
    IF response.kind = "null"
    THEN Rejected(ErrorObject(<<"TypeError">>))
    ELSE LET content == IF response.kind = "object" /\ response.text # <<>> THEN response.text
                        ELSE IF response.kind = "string" THEN response.text
                        ELSE <<>>
             plain == createOpenAIResponse(content)
         IN  IF HasToolCalls(response)
             THEN Fulfilled(AdapterSuccess("response",
                    SetToolCalls(plain, convertToolCalls(response.tool_calls, now))))
             ELSE Fulfilled(AdapterSuccess("response", plain))

\* 'return this.handleStream(params)' / 'return this.handleNonStream(params)'
\* inside the try of chat: the promise is returned, not awaited, so the
\* promise of chat settles as the returned promise does and the catch block
\* of chat never sees its rejection
ReturnFromTry(promise) == promise

-----------------------------------------------------------------------------
(* CloudflareAIProvider.chat and the background task of handleStream *)

\* no call of executeWithFallback is under way
RouterIdle ==
    /\ routes = <<>>
    /\ path = <<>>
    /\ pc = "idle"
    /\ providers = <<>>
    /\ idx = 1
    /\ lastError = Null
    /\ result = Null
    /\ calls = <<>>

\* chat has been called and has not run yet
AdapterStart ==
    /\ RouterIdle
    /\ chatPc = "call"
    /\ chatResult = [state |-> "pending"]
    /\ fault = "none"
    /\ cfStream = Null
    /\ readPos = 0
    /\ isFirst = TRUE
    /\ taskPc = "none"
    /\ pending = Null
    /\ emitted = <<>>
    /\ consumer = "reading"
    /\ clock = 0
    /\ cfMessages = <<>>
    /\ cfResponse = Null
    /\ ConfigIdle

\* an adapter with or without its binding, and one call of chat
AdapterInit ==
    /\ AdapterStart
    /\ aiBinding \in BOOLEAN
    /\ request \in Requests
    /\ messages = <<Message("user", StringValue(<<"t">>), FALSE)>>

\* one call of chat with any sequence of messages
ConvertInit ==
    /\ AdapterStart
    /\ aiBinding \in BOOLEAN
    /\ request \in Requests
    /\ messages \in SeqsUpTo(Messages, MaxMessages)

Str_NoBinding == <<"Cloudflare AI binding not available">>

\* lines 13-39: without the binding the throw is caught in chat; with it,
\* handleStream or handleNonStream is entered and calls aiBinding.run
ChatCall ==
    /\ chatPc = "call"
    /\ IF ~aiBinding
       THEN /\ chatResult' = Fulfilled(handleError(ErrorObject(Str_NoBinding)))
            /\ chatPc' = "settled"
            /\ fault' = "no_binding"
            /\ UNCHANGED cfMessages
       ELSE /\ cfMessages' = convertMessages(messages)
            /\ chatPc' = "run"
            /\ UNCHANGED <<chatResult, fault>>
    /\ UNCHANGED <<aiBinding, request, messages, cfStream, readPos, isFirst, taskPc, pending,
                   emitted, consumer, clock>>
    /\ UNCHANGED cfResponse
    /\ UNCHANGED outsideAdapter

\* lines 46 / 72: aiBinding.run throws, or the promise it returns rejects;
\* either way the promise of the async handler rejects
RunFails ==
    /\ chatPc = "run"
    /\ \E f \in {"run_throws", "run_rejects"} : fault' = f
    /\ chatResult' = ReturnFromTry(Rejected(ErrorObject(<<"upstream">>)))
    /\ chatPc' = "settled"
    /\ UNCHANGED <<aiBinding, request, messages, cfStream, readPos, isFirst, taskPc, pending,
                   emitted, consumer, clock>>
    /\ UNCHANGED <<cfMessages, cfResponse>>
    /\ UNCHANGED outsideAdapter

\* lines 46-68: run resolves for a non-streaming request
RunResolvesNonStream ==
    /\ chatPc = "run"
    /\ ~request.stream
    /\ \E response \in NonStreamValues :
        /\ cfResponse' = response
        /\ chatResult' = ReturnFromTry(handleNonStream(response, clock))
        /\ fault' = IF response.kind = "null" THEN "malformed" ELSE "none"
    /\ chatPc' = "settled"
    /\ UNCHANGED <<aiBinding, request, messages, cfStream, readPos, isFirst, taskPc, pending,
                   emitted, consumer, clock>>
    /\ UNCHANGED cfMessages
    /\ UNCHANGED outsideAdapter

\* lines 72-84 and 146-149: run resolves for a streaming request; the
\* background task starts and runs up to its first await (getReader throws
\* on what is no stream, which the task catches), and Success is returned
RunResolvesStream ==
    /\ chatPc = "run"
    /\ request.stream
    /\ \E s \in UpstreamStreams :
        /\ cfStream' = s
        /\ IF s.kind = "null"
           THEN /\ taskPc' = "close"
                /\ fault' = "malformed"
           ELSE /\ taskPc' = "read"
                /\ UNCHANGED fault
    /\ isFirst' = TRUE
    /\ chatResult' = ReturnFromTry(Fulfilled(AdapterSuccess("stream", "readable")))
    /\ chatPc' = "settled"
    /\ UNCHANGED <<aiBinding, request, messages, readPos, pending, emitted, consumer, clock>>
    /\ UNCHANGED <<cfMessages, cfResponse>>
    /\ UNCHANGED outsideAdapter

\* lines 88-131: reader.read() yields a chunk; it is parsed, and a frame is
\* handed to writer.write if the chunk carries tool calls or text
ReadChunk ==
    /\ taskPc = "read"
    /\ readPos < Len(cfStream.chunks)
    /\ readPos' = readPos + 1
    /\ LET parsed == ParseChunk(cfStream.chunks[readPos + 1])
           frames == ChunkFrames(parsed, isFirst, clock)
       IN  IF parsed.threw
           THEN /\ taskPc' = "close"
                /\ fault' = "bad_chunk"
                /\ UNCHANGED pending
           ELSE IF frames # <<>>
           THEN /\ taskPc' = "write"
                /\ pending' = frames[1]
                /\ UNCHANGED fault
           ELSE UNCHANGED <<taskPc, pending, fault>>
    /\ UNCHANGED <<aiBinding, request, messages, chatPc, chatResult, cfStream, isFirst, emitted,
                   consumer, clock>>
    /\ UNCHANGED <<cfMessages, cfResponse>>
    /\ UNCHANGED outsideAdapter

\* lines 88-89 and 135-137: reader.read() reports done; the final chunk is
\* handed to writer.write
ReadDone ==
    /\ taskPc = "read"
    /\ readPos = Len(cfStream.chunks)
    /\ cfStream.ending = "done"
    /\ pending' = FinishChunk(request)
    /\ taskPc' = "finish"
    /\ UNCHANGED <<aiBinding, request, messages, chatPc, chatResult, fault, cfStream, readPos,
                   isFirst, emitted, consumer, clock>>
    /\ UNCHANGED <<cfMessages, cfResponse>>
    /\ UNCHANGED outsideAdapter

\* lines 88 and 139-140: reader.read() rejects; the catch block logs
ReadFails ==
    /\ taskPc = "read"
    /\ readPos = Len(cfStream.chunks)
    /\ cfStream.ending = "error"
    /\ fault' = "read_error"
    /\ taskPc' = "close"
    /\ UNCHANGED <<aiBinding, request, messages, chatPc, chatResult, cfStream, readPos, isFirst,
                   pending, emitted, consumer, clock>>
    /\ UNCHANGED <<cfMessages, cfResponse>>
    /\ UNCHANGED outsideAdapter

\* await writer.write(...): the frame goes out, or the write rejects because
\* the reader of the stream has cancelled it, and the catch block logs
WriteOutcome(next) ==
    IF consumer = "cancelled"
    THEN /\ fault' = "write_error"
         /\ taskPc' = "close"
         /\ UNCHANGED emitted
    ELSE /\ emitted' = Append(emitted, pending)
         /\ taskPc' = next
         /\ UNCHANGED fault

\* lines 121-122 / 129-130: a chunk is written, isFirst = false
WriteChunk ==
    /\ taskPc = "write"
    /\ WriteOutcome("read")
    /\ isFirst' = IF consumer = "cancelled" THEN isFirst ELSE FALSE
    /\ UNCHANGED pending
    /\ UNCHANGED <<aiBinding, request, messages, chatPc, chatResult, cfStream, readPos, consumer, clock>>
    /\ UNCHANGED <<cfMessages, cfResponse>>
    /\ UNCHANGED outsideAdapter

\* line 137: the final chunk is written
WriteFinish ==
    /\ taskPc = "finish"
    /\ WriteOutcome("sentinel")
    /\ pending' = IF consumer = "cancelled" THEN pending ELSE DoneFrame
    /\ UNCHANGED <<aiBinding, request, messages, chatPc, chatResult, cfStream, readPos, isFirst,
                   consumer, clock>>
    /\ UNCHANGED <<cfMessages, cfResponse>>
    /\ UNCHANGED outsideAdapter

\* line 138: 'data: [DONE]' is written
WriteSentinel ==
    /\ taskPc = "sentinel"
    /\ WriteOutcome("close")
    /\ UNCHANGED pending
    /\ UNCHANGED <<aiBinding, request, messages, chatPc, chatResult, cfStream, readPos, isFirst,
                   consumer, clock>>
    /\ UNCHANGED <<cfMessages, cfResponse>>
    /\ UNCHANGED outsideAdapter

\* lines 141-143: await writer.close() in the finally block; on a stream its
\* reader has cancelled close rejects, and nothing handles the rejection
CloseWriter ==
    /\ taskPc = "close"
    /\ taskPc' = IF consumer = "cancelled" THEN "unhandled" ELSE "ended"
    /\ UNCHANGED <<aiBinding, request, messages, chatPc, chatResult, fault, cfStream, readPos,
                   isFirst, pending, emitted, consumer, clock>>
    /\ UNCHANGED <<cfMessages, cfResponse>>
    /\ UNCHANGED outsideAdapter

TaskRunning == taskPc \in {"read", "write", "finish", "sentinel", "close"}

\* the caller cancels the stream it was returned
ConsumerCancel ==
    /\ TaskRunning
    /\ consumer = "reading"
    /\ consumer' = "cancelled"
    /\ UNCHANGED <<aiBinding, request, messages, chatPc, chatResult, fault, cfStream, readPos,
                   isFirst, taskPc, pending, emitted, clock>>
    /\ UNCHANGED <<cfMessages, cfResponse>>
    /\ UNCHANGED outsideAdapter

\* time passes between two steps of the task
Tick ==
    /\ TaskRunning
    /\ clock < MaxClock
    /\ clock' = clock + 1
    /\ UNCHANGED <<aiBinding, request, messages, chatPc, chatResult, fault, cfStream, readPos,
                   isFirst, taskPc, pending, emitted, consumer>>
    /\ UNCHANGED <<cfMessages, cfResponse>>
    /\ UNCHANGED outsideAdapter

AdapterNext ==
    \/ ChatCall
    \/ RunFails
    \/ RunResolvesNonStream
    \/ RunResolvesStream
    \/ ReadChunk
    \/ ReadDone
    \/ ReadFails
    \/ WriteChunk
    \/ WriteFinish
    \/ WriteSentinel
    \/ CloseWriter
    \/ ConsumerCancel
    \/ Tick

AdapterSpec == AdapterInit /\ [][AdapterNext]_vars

\* chat up to the conversion of the messages of the request
ConvertNext == ChatCall

ConvertSpec == ConvertInit /\ [][ConvertNext]_vars

-----------------------------------------------------------------------------
(* Claims about CloudflareAIProvider.chat and its stream *)

ChatFaults == {"no_binding", "run_throws", "run_rejects", "malformed"}

\* C5: chat never lets a fault escape: for streaming and non-streaming
\* requests alike, a missing binding, an upstream call that throws or
\* rejects, or a malformed upstream payload makes the promise of chat fulfil
\* with a Failure; it never rejects.
C5_ChatReturnsFailureOnFault ==
    chatPc = "settled" =>
        /\ chatResult.state = "fulfilled"
        /\ fault \in ChatFaults => ~chatResult.value.success

\* C9: on every stream the first chunk emitted carries role 'assistant' in
\* its delta and every chunk after it omits the role.
C9_FirstChunkCarriesRole ==
    \A k \in 1..Len(emitted) :
        emitted[k].type = "chunk" =>
            IF k = 1 THEN emitted[k].delta.role = "assistant"
            ELSE emitted[k].delta.role = "absent"

TerminalChunks ==
    {k \in 1..Len(emitted) : emitted[k].type = "chunk" /\ emitted[k].finish_reason # "none"}

DoneFrames == {k \in 1..Len(emitted) : emitted[k].type = "done"}

StreamOver == taskPc \in {"ended", "unhandled"}

\* C10: every stream emits exactly one terminal chunk with a finish reason
\* and exactly one '[DONE]' frame, which comes after the terminal chunk and
\* never before it; nothing but '[DONE]' follows the terminal chunk; this
\* holds however the stream ends.
C10_OneTerminalChunkThenDone ==
    /\ \A d \in DoneFrames : \E t \in TerminalChunks : t < d
    /\ \A t \in TerminalChunks : \A k \in (t + 1)..Len(emitted) : emitted[k].type = "done"
    /\ StreamOver =>
        /\ Cardinality(TerminalChunks) = 1
        /\ Cardinality(DoneFrames) = 1

-----------------------------------------------------------------------------
(* Non-streaming responses *)

\* chat has returned a Success for a non-streaming request
NonStreamSuccess ==
    /\ chatPc = "settled"
    /\ ~request.stream
    /\ chatResult.state = "fulfilled"
    /\ chatResult.value.success

\* C11: a non-streaming response built from an upstream result with one or
\* more tool calls has content null and finish_reason 'tool_calls'; one built
\* from a result without tool calls has finish_reason 'stop' and no tool_calls
C11_NonStreamFinishReason ==
    NonStreamSuccess =>
        LET message == chatResult.value.body
        IN  IF HasToolCalls(cfResponse)
            THEN /\ message.content = Null
                 /\ message.finish_reason = "tool_calls"
                 /\ Len(message.tool_calls) = Len(cfResponse.tool_calls)
            ELSE /\ message.finish_reason = "stop"
                 /\ message.tool_calls = <<>>

\* a response whose upstream result carried both a text and tool calls
C11_Witness ==
    /\ NonStreamSuccess
    /\ HasToolCalls(cfResponse)
    /\ cfResponse.text # <<>>
    /\ chatResult.value.body.content = Null

-----------------------------------------------------------------------------
(* Streams that meet a fault *)

\* the chunks with content or tool calls among the frames emitted
ContentChunks ==
    {k \in 1..Len(emitted) : emitted[k].type = "chunk" /\ emitted[k].finish_reason = "none"}

\* the upstream sequence faulted after the stream was returned
MidStreamFaults == {"read_error", "bad_chunk"}

\* the readable side was closed by writer.close(), as on a complete stream
ClosedNormally == taskPc = "ended" /\ consumer = "reading"

\* C12: the caller never receives a silently truncated stream: when the
\* upstream sequence faults after Success with a stream was returned, the
\* stream does not close normally after some content chunks with neither a
\* terminal chunk nor a '[DONE]' frame.
C12_NoSilentTruncation ==
    (ClosedNormally /\ fault \in MidStreamFaults) =>
        ~(ContentChunks # {} /\ TerminalChunks = {} /\ DoneFrames = {})

\* C13: when the consumer cancels the stream while the forwarding task is
\* running, the task closes its writer and reaches its end without an
\* unhandled fault from the cleanup step.
C13_CancelledTaskEndsCleanly ==
    (consumer = "cancelled" /\ StreamOver) => taskPc = "ended"

-----------------------------------------------------------------------------
(* Message conversion *)

\* the roles the upstream model accepts
UpstreamRoles == {"user", "assistant"}

\* chat has converted the messages of the request
Converted == chatPc # "call" /\ aiBinding

\* C14: role mapping is total: for every canonical role, with or without
\* content and with or without tool_calls, the conversion yields a message
\* with role user or assistant and raises no fault; the output has the length
\* and the order of the input.
C14_RoleMappingTotal ==
    Converted =>
        /\ chatPc = "run"
        /\ fault = "none"
        /\ Len(cfMessages) = Len(messages)
        /\ \A k \in 1..Len(messages) :
            /\ cfMessages[k].role \in UpstreamRoles
            /\ cfMessages[k].role =
                   (IF messages[k].role = "assistant" THEN "assistant" ELSE "user")
            /\ cfMessages[k].content =
                   (IF Truthy(messages[k].content) THEN messages[k].content.text ELSE <<>>)

\* a system message with a text followed by a tool message without content
C14_Witness ==
    /\ Converted
    /\ Len(messages) = 2
    /\ messages[1].role = "system"
    /\ messages[1].content = StringValue(<<"t">>)
    /\ messages[2].role = "tool"
    /\ messages[2].content = Undefined
    /\ cfMessages[1] = [role |-> "user", content |-> <<"t">>]
    /\ cfMessages[2] = [role |-> "user", content |-> <<>>]

-----------------------------------------------------------------------------
(* Construction of the Router from ROUTES_CONFIG *)

\* a Worker with its ROUTES_CONFIG, before new Router(env), and a request path
ConfigInit ==
    /\ routes = <<>>
    /\ path \in Paths
    /\ pc = "idle"
    /\ providers = <<>>
    /\ idx = 1
    /\ lastError = Null
    /\ result = Null
    /\ calls = <<>>
    /\ AdapterIdle
    /\ routesConfig \in WellFormedConfigs \cup MalformedConfigs
    /\ router = RouterObject("none", JNull)
    /\ served = NotServed
    /\ pair = <<>>

\* lines 8-10: new Router(env) returns with this.routes set, or throws
Construct ==
    /\ router.state = "none"
    /\ LET r == parseRoutesConfig(routesConfig) IN
        IF r.ok
        THEN router' = RouterObject("constructed", r.value)
        ELSE router' = RouterObject("failed", JNull)
    /\ UNCHANGED <<routesConfig, served>>
    /\ UNCHANGED <<rvars, avars, pair>>

\* lines 49-60: a request reaches executeWithFallback of the constructed Router
ServeRequest ==
    /\ router.state = "constructed"
    /\ served = NotServed
    /\ served' = EnterFallback(router.routes, path)
    /\ UNCHANGED <<routesConfig, router>>
    /\ UNCHANGED <<rvars, avars, pair>>

ConfigNext ==
    \/ Construct
    \/ ServeRequest

ConfigSpec == ConfigInit /\ [][ConfigNext]_vars

\* C15: a malformed or absent routing configuration is fatal at startup:
\* constructing the Router fails for an absent ROUTES_CONFIG, for text that is
\* not JSON and for JSON that is not a mapping from route path to a list of
\* provider configurations, so no constructed Router fails a request because
\* of a configuration defect.
C15_MalformedConfigIsFatal ==
    routesConfig \in MalformedConfigs =>
        /\ router.state # "constructed"
        /\ served = NotServed

-----------------------------------------------------------------------------
(* The chunks of a stream *)

\* C16: for each upstream chunk exactly one stream chunk is emitted, a
\* tool_calls delta when the upstream chunk carries tool-call data (with or
\* without text) and a content delta otherwise; the non-terminal chunks
\* emitted are as many as the upstream chunks read, in the same order.
C16_OneChunkPerUpstreamChunk ==
    (taskPc \notin {"none", "write"} /\ consumer = "reading") =>
        /\ Cardinality(ContentChunks) = readPos
        /\ \A k \in ContentChunks :
            k <= readPos =>
                IF HasToolCalls(cfStream.chunks[k])
                THEN emitted[k].delta.tool_calls # <<>>
                ELSE emitted[k].delta.tool_calls = <<>>

\* the request declared tools: its tools list is there and not empty
DeclaredTools == request.tools = "some"

\* C17: once the upstream sequence is exhausted the terminal chunk carries
\* finish reason 'tool_calls' if the request declared tools and 'stop'
\* otherwise, whether or not a tool-call chunk was emitted on the stream.
C17_FinishReasonFollowsRequest ==
    /\ \A t \in TerminalChunks :
        emitted[t].finish_reason = (IF DeclaredTools THEN "tool_calls" ELSE "stop")
    /\ taskPc = "sentinel" =>
        /\ readPos = Len(cfStream.chunks)
        /\ Len(emitted) \in TerminalChunks

\* a stream without any tool-call chunk that ends with 'tool_calls'
C17_Witness ==
    /\ \E t \in TerminalChunks : emitted[t].finish_reason = "tool_calls"
    /\ ContentChunks # {}
    /\ \A k \in ContentChunks : emitted[k].delta.tool_calls = <<>>

-----------------------------------------------------------------------------
(* Tool-call ids *)

\* the tool calls emitted on the stream: <<frame, position in its batch>>
StreamedCalls ==
    UNION {{<<k, j>> : j \in 1..Len(emitted[k].delta.tool_calls)} : k \in 1..Len(emitted)}

\* C18: within one response every tool call has an id of its own: among the
\* calls of one non-streaming response, and among all the calls emitted
\* across the chunks of one streamed response, at any clock readings.
C18_ToolCallIdsUnique ==
    /\ NonStreamSuccess =>
        \A a, b \in 1..Len(chatResult.value.body.tool_calls) :
            a # b => chatResult.value.body.tool_calls[a].id # chatResult.value.body.tool_calls[b].id
    /\ \A a, b \in StreamedCalls :
        a # b => emitted[a[1]].delta.tool_calls[a[2]].id # emitted[b[1]].delta.tool_calls[b[2]].id

-----------------------------------------------------------------------------
(* Attempts of one request *)

\* the attempts that were started and have not completed
InProgress == {k \in 1..Len(calls) : calls[k].state = "pending"}

\* C19: at every moment at most one provider attempt of a request is in
\* progress: the attempt for provider i+1 starts only after the attempt for
\* provider i has completed with a Failure or a fault, and once a Success is
\* returned no further attempt is started.
C19_AttemptsNeverOverlap ==
    /\ Cardinality(InProgress) <= 1
    /\ \A k \in InProgress :
        /\ k = Len(calls)
        /\ pc = "await"
        /\ \A j \in 1..(k - 1) : Failed(calls[j])
    /\ \A k \in 1..Len(calls) :
        calls[k].state = "success" => (k = Len(calls) /\ pc = "done")
    /\ pc \in {"done", "rejected"} => InProgress = {}

\* the second attempt is in progress after the first has failed
C19_Witness ==
    /\ Len(calls) = 2
    /\ Failed(calls[1])
    /\ calls[2].state = "pending"
    /\ pc = "await"

-----------------------------------------------------------------------------
(* Two requests at once on one Router and one adapter                      *)
(*                                                                         *)
(* Each call of executeWithFallback and each forwarding task of            *)
(* handleStream has its own locals; this.routes is the one thing the two   *)
(* calls share.  What the provider of each attempt answers, and what the   *)
(* upstream stream yields, is fixed per request when it arrives, so that   *)
(* the interleaved run can be compared with the run of the request alone.  *)

RequestIds == {1, 2}

\* the route table the two requests share
PairTable ==
    << [route |-> <<"/", "a">>, providers |-> ProviderList(<<"/", "a">>, 2)],
       [route |-> <<"/", "a", "b">>, providers |-> ProviderList(<<"/", "a", "b">>, 1)] >>

PairPaths == { <<"a">>, <<"/", "a", "b">> }

\* how the attempt at a list position ends
OutcomeKinds == {"success", "failure", "fault"}

\* the error text the providers answer request r with
ErrorOf(r) == IF r = 1 THEN <<"e", "1">> ELSE <<"e", "2">>

\* what the upstream stream of a request yields
PairStreams ==
    { Stream("stream",
             <<Value("string", <<"t">>, FALSE, <<>>),
               Value("object", <<"t">>, TRUE, <<UpstreamCall("f"), UpstreamCall("g")>>)>>,
             "done"),
      Stream("stream", <<Value("string", <<"t">>, FALSE, <<>>)>>, "error") }

\* a request on arrival: its inputs, and the locals of the call not yet set
Arrival(p, outcomes, upstream, tools) ==
    [path |-> p, outcomes |-> outcomes, upstream |-> upstream, tools |-> tools,
     pc |-> "call", providers |-> <<>>, idx |-> 1, lastError |-> Null,
     result |-> Null, calls |-> <<>>,
     taskPc |-> "none", readPos |-> 0, isFirst |-> TRUE, pending |-> Null,
     emitted |-> <<>>]

\* the locals of a call live in the activation of that call: a step of
\* request r writes the locals of r only
LocalSharedLastError(store, r, q) ==
    [x \in DOMAIN store |-> IF x = r THEN q ELSE [store[x] EXCEPT !.lastError = q.lastError]]

Local(store, r, q) == [store EXCEPT ![r] = q]

PairInit ==
    /\ routes = PairTable
    /\ path = <<>>
    /\ pc = "idle"
    /\ providers = <<>>
    /\ idx = 1
    /\ lastError = Null
    /\ result = Null
    /\ calls = <<>>
    /\ AdapterIdle
    /\ routesConfig = EnvValue("json", ConfigOf(routes))
    /\ router = RouterObject("constructed", ConfigOf(routes))
    /\ served = NotServed
    /\ \E ps \in [RequestIds -> PairPaths], os \in [RequestIds -> [1..2 -> OutcomeKinds]],
          us \in [RequestIds -> PairStreams] :
        pair = [r \in RequestIds |->
                    Arrival(ps[r], os[r], us[r], IF r = 1 THEN "some" ELSE "absent")]

\* line 49
PairResolve(r) ==
    /\ pair[r].pc = "call"
    /\ LET q == pair[r]
           g == getProvidersForRoute(routes, q.path)
       IN  pair' = Local(pair, r,
                IF g.ok
                THEN [q EXCEPT !.providers = g.value, !.pc = "loop", !.idx = 1, !.lastError = Null]
                ELSE [q EXCEPT !.result = g.error, !.pc = "rejected"])
    /\ UNCHANGED <<rvars, avars, cvars>>

\* lines 56-64: the attempt for providers[idx] is started and awaited
PairStart(r) ==
    /\ pair[r].pc = "loop"
    /\ pair[r].idx <= Len(pair[r].providers)
    /\ LET q == pair[r] IN
        pair' = Local(pair, r,
            [q EXCEPT !.calls = Append(q.calls, Call(q.providers[q.idx], "pending", Undefined)),
                      !.pc = "await"])
    /\ UNCHANGED <<rvars, avars, cvars>>

\* lines 64-78: the attempt completes; a Success is returned with its stream,
\* whose forwarding task is running by then
PairSettle(r) ==
    /\ pair[r].pc = "await"
    /\ LET q == pair[r]
           config == q.providers[q.idx]
           kind == q.outcomes[q.idx]
           e == IF kind = "failure" THEN StringValue(ErrorOf(r)) ELSE ErrorObject(ErrorOf(r))
       IN  pair' = Local(pair, r,
                IF kind = "success"
                THEN [q EXCEPT !.calls = SetLast(q.calls, Call(config, "success", Undefined)),
                               !.result = SuccessResponse(config),
                               !.pc = "done",
                               !.taskPc = "read"]
                ELSE [q EXCEPT !.calls = SetLast(q.calls, Call(config, kind, e)),
                               !.lastError = RecordError(q.lastError, e),
                               !.idx = NextIndex(q.idx),
                               !.pc = "loop"])
    /\ UNCHANGED <<rvars, avars, cvars>>

\* lines 82-86
PairAllFailed(r) ==
    /\ pair[r].pc = "loop"
    /\ pair[r].idx > Len(pair[r].providers)
    /\ LET q == pair[r] IN
        pair' = Local(pair, r, [q EXCEPT !.result = AllFailedResponse(q.lastError), !.pc = "done"])
    /\ UNCHANGED <<rvars, avars, cvars>>

\* lines 88-137: one reader.read() of the forwarding task of request r
PairRead(r) ==
    /\ pair[r].taskPc = "read"
    /\ LET q == pair[r]
           s == q.upstream
       IN  pair' = Local(pair, r,
                IF q.readPos < Len(s.chunks)
                THEN LET parsed == ParseChunk(s.chunks[q.readPos + 1])
                         frames == ChunkFrames(parsed, q.isFirst, clock)
                     IN  IF parsed.threw
                         THEN [q EXCEPT !.readPos = q.readPos + 1, !.taskPc = "close"]
                         ELSE IF frames # <<>>
                         THEN [q EXCEPT !.readPos = q.readPos + 1, !.taskPc = "write",
                                        !.pending = frames[1]]
                         ELSE [q EXCEPT !.readPos = q.readPos + 1]
                ELSE IF s.ending = "done"
                THEN [q EXCEPT !.pending = FinishChunk([stream |-> TRUE, tools |-> q.tools]),
                               !.taskPc = "finish"]
                ELSE [q EXCEPT !.taskPc = "close"])
    /\ UNCHANGED <<rvars, avars, cvars>>

\* lines 121-122, 129-130, 137, 138: one writer.write() of the task of r
PairWrite(r) ==
    /\ pair[r].taskPc \in {"write", "finish", "sentinel"}
    /\ LET q == pair[r]
           out == Append(q.emitted, q.pending)
       IN  pair' = Local(pair, r,
                CASE q.taskPc = "write" ->
                        [q EXCEPT !.emitted = out, !.isFirst = FALSE, !.taskPc = "read"]
                  [] q.taskPc = "finish" ->
                        [q EXCEPT !.emitted = out, !.pending = DoneFrame, !.taskPc = "sentinel"]
                  [] q.taskPc = "sentinel" ->
                        [q EXCEPT !.emitted = out, !.taskPc = "close"])
    /\ UNCHANGED <<rvars, avars, cvars>>

\* lines 141-143
PairClose(r) ==
    /\ pair[r].taskPc = "close"
    /\ pair' = Local(pair, r, [pair[r] EXCEPT !.taskPc = "ended"])
    /\ UNCHANGED <<rvars, avars, cvars>>

PairNext ==
    \E r \in RequestIds :
        \/ PairResolve(r)
        \/ PairStart(r)
        \/ PairSettle(r)
        \/ PairAllFailed(r)
        \/ PairRead(r)
        \/ PairWrite(r)
        \/ PairClose(r)

PairSpec == PairInit /\ [][PairNext]_vars

\* the loop of executeWithFallback run for one request by itself, from list
\* position i on
RECURSIVE AloneLoop(_, _, _, _, _, _)
AloneLoop(r, list, outcomes, i, le, log) ==
    IF i > Len(list) THEN [result |-> AllFailedResponse(le), calls |-> log]
    ELSE IF outcomes[i] = "success"
    THEN [result |-> SuccessResponse(list[i]),
          calls |-> Append(log, Call(list[i], "success", Undefined))]
    ELSE LET e == IF outcomes[i] = "failure" THEN StringValue(ErrorOf(r))
                  ELSE ErrorObject(ErrorOf(r))
         IN  AloneLoop(r, list, outcomes, NextIndex(i), RecordError(le, e),
                       Append(log, Call(list[i], outcomes[i], e)))

\* executeWithFallback run for request r by itself
AloneRun(r, rt, p, outcomes) ==
    LET g == getProvidersForRoute(rt, p) IN
    IF g.ok THEN AloneLoop(r, g.value, outcomes, 1, Null, <<>>)
    ELSE [result |-> g.error, calls |-> <<>>]

\* the frames the forwarding task writes when it runs by itself, from
\* upstream chunk k on
RECURSIVE AloneFrames(_, _, _, _, _)
AloneFrames(s, tools, k, first, now) ==
    IF k > Len(s.chunks)
    THEN (IF s.ending = "done"
          THEN <<FinishChunk([stream |-> TRUE, tools |-> tools]), DoneFrame>>
          ELSE <<>>)
    ELSE LET parsed == ParseChunk(s.chunks[k])
             frames == ChunkFrames(parsed, first, now)
         IN  IF parsed.threw THEN <<>>
             ELSE frames \o AloneFrames(s, tools, k + 1, first /\ frames = <<>>, now)

IsPrefix(a, b) == Len(a) <= Len(b) /\ SubSeq(b, 1, Len(a)) = a

\* request r is where it would be had it run alone
SameAsAlone(r) ==
    LET q == pair[r]
        alone == AloneRun(r, PairTable, q.path, q.outcomes)
        frames == AloneFrames(q.upstream, q.tools, 1, TRUE, clock)
    IN  /\ Len(q.calls) <= Len(alone.calls)
        /\ \A k \in 1..Len(q.calls) :
            /\ q.calls[k].config = alone.calls[k].config
            /\ q.calls[k].state \in {"pending", alone.calls[k].state}
        /\ q.pc \in {"done", "rejected"} =>
            /\ q.calls = alone.calls
            /\ q.result = alone.result
        /\ IsPrefix(q.emitted, frames)
        /\ q.taskPc = "ended" => q.emitted = frames

\* C20: concurrent requests do not interfere: no step modifies the route
\* table after construction, and each of two interleaved requests keeps the
\* sequence of attempts, the first-chunk role, the terminal chunk and the
\* result it has when it runs alone.
C20_NoInterference ==
    /\ [](pair # <<>> => \A r \in RequestIds : SameAsAlone(r))
    /\ [][routes' = routes]_vars

\* both streams are being forwarded at once, after request 1 has fallen back
C20_Witness ==
    /\ pair # <<>>
    /\ Len(pair[1].calls) = 2
    /\ pair[1].taskPc = "write"
    /\ pair[2].taskPc = "write"
    /\ pair[1].emitted # <<>>
    /\ pair[2].emitted # <<>>

=============================================================================
